---- MODULE Spec2Model ----
(***************************************************************************)
(* Triple Modular Redundancy of r0nlt/healthcare.                          *)
(*                                                                         *)
(* EnhancedTMRDemo (advanced_tmr_demo.py) keeps three copies of a value,   *)
(* votes on read, checks integrity and corrects a single divergent copy.   *)
(* StandardTMR / EnhancedTMR (build_python/rad_ml/tmr.py) wrap a native    *)
(* core, or fall back to a single stored value when there is no core.      *)
(*                                                                         *)
(* Values are Python objects: a kind (their type) and a payload.  The      *)
(* comparisons of the code are Python's == and !=, modelled by PyEq and    *)
(* PyNe: bool and int compare numerically (True == 1), floats compare by   *)
(* IEEE-754 (NaN is unequal to everything, itself included; -0.0 == 0.0).  *)
(***************************************************************************)
EXTENDS Integers, Sequences, FiniteSets, TLC

\* ------------------------------------------------------------------ bounds
\* The integers of the model are 0..MaxInt, and the counter of the test
\* script.
MaxInt == 2
\* StandardTMR(42)
InitialCounter == 42

\* ------------------------------------------------------------------ values
\* Width of the float32 fraction field (struct format '>f').
MantBits == 23
\* Bias of the float32 exponent field.
ExpBias == 127
\* The all-ones exponent: infinities and NaNs.
ExpSpecial == 255

RECURSIVE Pow2(_)
Pow2(k) == IF k = 0 THEN 1 ELSE 2 * Pow2(k - 1)

IntV(n) == [kind |-> "int", n |-> n]
BoolV(b) == [kind |-> "bool", n |-> IF b THEN 1 ELSE 0]
\* A float, by its float32 fields: sign, biased exponent, fraction.
FloatV(s, e, m) == [kind |-> "float", s |-> s, e |-> e, m |-> m]
\* A str object, named by an index.
StrV(i) == [kind |-> "str", n |-> i]
\* Python's None.
NoneV == [kind |-> "NoneType", n |-> 0]

PyTrue == BoolV(TRUE)
PyFalse == BoolV(FALSE)

FloatZero == FloatV(0, 0, 0)
FloatNegZero == FloatV(1, 0, 0)
FloatOne == FloatV(0, ExpBias, 0)
FloatOneAndHalf == FloatV(0, ExpBias, Pow2(MantBits - 1))
FloatNaN == FloatV(0, ExpSpecial, Pow2(MantBits - 1))

IntValues == {IntV(n) : n \in 0..MaxInt} \cup {IntV(InitialCounter)}
BoolValues == {PyFalse, PyTrue}
FloatValues == {FloatZero, FloatNegZero, FloatOne, FloatOneAndHalf, FloatNaN}
StrValues == {StrV(0)}
\* The objects a caller passes in: initial values and written values.
Values == IntValues \cup BoolValues \cup FloatValues \cup StrValues

\* type(x)
TypeOf(x) == x.kind

\* isinstance(x, T): bool is a subclass of int.
IsInstance(x, T) == TypeOf(x) = T \/ (TypeOf(x) = "bool" /\ T = "int")

IsNaN(f) == f.e = ExpSpecial /\ f.m # 0
IsFloatZero(f) == f.e = 0 /\ f.m = 0

\* Whether the float f is exactly the integer n (|n| < 2^24).
FloatIsInt(f, n) ==
    IF IsNaN(f) THEN FALSE
    ELSE IF IsFloatZero(f) THEN n = 0
    ELSE IF f.e < ExpBias \/ f.e > ExpBias + MantBits THEN FALSE
    ELSE LET sig == Pow2(MantBits) + f.m
             div == Pow2(ExpBias + MantBits - f.e)
         IN  /\ sig % div = 0
             /\ n = (IF f.s = 1 THEN 0 - (sig \div div) ELSE sig \div div)

\* Python's x == y.
PyEq(x, y) ==
    LET kx == TypeOf(x)
        ky == TypeOf(y)
        intlike == {"int", "bool"}
    IN  IF kx \in intlike /\ ky \in intlike THEN x.n = y.n
        ELSE IF kx = "float" /\ ky = "float"
            THEN /\ ~IsNaN(x)
                 /\ ~IsNaN(y)
                 /\ \/ (IsFloatZero(x) /\ IsFloatZero(y))
                    \/ (x.s = y.s /\ x.e = y.e /\ x.m = y.m)
        ELSE IF kx = "float" /\ ky \in intlike THEN FloatIsInt(x, y.n)
        ELSE IF kx \in intlike /\ ky = "float" THEN FloatIsInt(y, x.n)
        ELSE kx = ky /\ x.n = y.n

\* Python's x != y.
PyNe(x, y) == ~PyEq(x, y)

\* ------------------------------------------------------- EnhancedTMRDemo
\* Faulty variants of the methods below, used to show that each checked
\* property depends on the method it is about.

\* The getter without the vote: it returns the first copy.
value_get_First(v1, v2, v3) == v1

\* The getter with the no-majority default moved to the third copy.
value_get_Fallback3(v1, v2, v3) ==
    IF PyEq(v1, v2) THEN v1
    ELSE IF PyEq(v1, v3) THEN v1
    ELSE IF PyEq(v2, v3) THEN v2
    ELSE v3

\* The integrity check that compares only the first two copies.
check_integrity_TwoOnly(v1, v2, v3) == PyEq(v1, v2)

\* correct that overwrites the agreeing pair with the copy that differs.
correct_Minority(v1, v2, v3) ==
    IF PyEq(v1, v2) /\ PyNe(v1, v3)
        THEN [ret |-> TRUE, v1 |-> v3, v2 |-> v3, v3 |-> v3]
    ELSE IF PyEq(v1, v3) /\ PyNe(v1, v2)
        THEN [ret |-> TRUE, v1 |-> v2, v2 |-> v2, v3 |-> v2]
    ELSE IF PyEq(v2, v3) /\ PyNe(v1, v2)
        THEN [ret |-> TRUE, v1 |-> v1, v2 |-> v1, v3 |-> v1]
    ELSE [ret |-> FALSE, v1 |-> v1, v2 |-> v2, v3 |-> v3]

\* correct whose second branch assigns copy 1 from copy 2.
correct_Branch2Swapped(v1, v2, v3) ==
    IF PyEq(v1, v2) /\ PyNe(v1, v3)
        THEN [ret |-> TRUE, v1 |-> v1, v2 |-> v2, v3 |-> v1]
    ELSE IF PyEq(v1, v3) /\ PyNe(v1, v2)
        THEN [ret |-> TRUE, v1 |-> v2, v2 |-> v2, v3 |-> v3]
    ELSE IF PyEq(v2, v3) /\ PyNe(v1, v2)
        THEN [ret |-> TRUE, v1 |-> v2, v2 |-> v2, v3 |-> v3]
    ELSE [ret |-> FALSE, v1 |-> v1, v2 |-> v2, v3 |-> v3]

\* correct with the assignment of the first branch forgotten.
correct_NoRepair3(v1, v2, v3) ==
    IF PyEq(v1, v2) /\ PyNe(v1, v3)
        THEN [ret |-> TRUE, v1 |-> v1, v2 |-> v2, v3 |-> v3]
    ELSE IF PyEq(v1, v3) /\ PyNe(v1, v2)
        THEN [ret |-> TRUE, v1 |-> v1, v2 |-> v1, v3 |-> v3]
    ELSE IF PyEq(v2, v3) /\ PyNe(v1, v2)
        THEN [ret |-> TRUE, v1 |-> v2, v2 |-> v2, v3 |-> v3]
    ELSE [ret |-> FALSE, v1 |-> v1, v2 |-> v2, v3 |-> v3]

\* correct that, with no majority, forces the first copy onto the others.
correct_OnDistinct(v1, v2, v3) ==
    IF PyEq(v1, v2) /\ PyNe(v1, v3)
        THEN [ret |-> TRUE, v1 |-> v1, v2 |-> v2, v3 |-> v1]
    ELSE IF PyEq(v1, v3) /\ PyNe(v1, v2)
        THEN [ret |-> TRUE, v1 |-> v1, v2 |-> v1, v3 |-> v3]
    ELSE IF PyEq(v2, v3) /\ PyNe(v1, v2)
        THEN [ret |-> TRUE, v1 |-> v2, v2 |-> v2, v3 |-> v3]
    ELSE IF PyNe(v1, v2)
        THEN [ret |-> TRUE, v1 |-> v1, v2 |-> v1, v3 |-> v1]
    ELSE [ret |-> FALSE, v1 |-> v1, v2 |-> v2, v3 |-> v3]

\* correct with the "and value1 != value3" of the first branch dropped.
correct_OnConsistent(v1, v2, v3) ==
    IF PyEq(v1, v2)
        THEN [ret |-> TRUE, v1 |-> v1, v2 |-> v2, v3 |-> v1]
    ELSE IF PyEq(v1, v3) /\ PyNe(v1, v2)
        THEN [ret |-> TRUE, v1 |-> v1, v2 |-> v1, v3 |-> v3]
    ELSE IF PyEq(v2, v3) /\ PyNe(v1, v2)
        THEN [ret |-> TRUE, v1 |-> v2, v2 |-> v2, v3 |-> v3]
    ELSE [ret |-> FALSE, v1 |-> v1, v2 |-> v2, v3 |-> v3]

\* correct whose second branch repairs from the divergent copy.
correct_WrongSource(v1, v2, v3) ==
    IF PyEq(v1, v2) /\ PyNe(v1, v3)
        THEN [ret |-> TRUE, v1 |-> v1, v2 |-> v2, v3 |-> v1]
    ELSE IF PyEq(v1, v3) /\ PyNe(v1, v2)
        THEN [ret |-> TRUE, v1 |-> v2, v2 |-> v2, v3 |-> v2]
    ELSE IF PyEq(v2, v3) /\ PyNe(v1, v2)
        THEN [ret |-> TRUE, v1 |-> v2, v2 |-> v2, v3 |-> v3]
    ELSE [ret |-> FALSE, v1 |-> v1, v2 |-> v2, v3 |-> v3]

\* The value getter: the majority vote, in the fixed order (1,2), (1,3), (2,3).
value_get(v1, v2, v3) ==
    IF PyEq(v1, v2) THEN v1
    ELSE IF PyEq(v1, v3) THEN v1
    ELSE IF PyEq(v2, v3) THEN v2
    ELSE v1

\* check_integrity: value1 == value2 == value3, Python's chained comparison.
check_integrity(v1, v2, v3) == PyEq(v1, v2) /\ PyEq(v2, v3)

\* correct: the result and the three copies afterwards.
correct(v1, v2, v3) ==
    IF PyEq(v1, v2) /\ PyNe(v1, v3)
        THEN [ret |-> TRUE, v1 |-> v1, v2 |-> v2, v3 |-> v1]
    ELSE IF PyEq(v1, v3) /\ PyNe(v1, v2)
        THEN [ret |-> TRUE, v1 |-> v1, v2 |-> v1, v3 |-> v3]
    ELSE IF PyEq(v2, v3) /\ PyNe(v1, v2)
        THEN [ret |-> TRUE, v1 |-> v2, v2 |-> v2, v3 |-> v3]
    ELSE [ret |-> FALSE, v1 |-> v1, v2 |-> v2, v3 |-> v3]

\* The value setter: whether the write is accepted and the copies afterwards.
value_set(vt, v1, v2, v3, new_value) ==
    IF ~IsInstance(new_value, vt)
        THEN [raised |-> "TypeError", v1 |-> v1, v2 |-> v2, v3 |-> v3]
    ELSE [raised |-> "none", v1 |-> new_value, v2 |-> new_value, v3 |-> new_value]

\* ------------------------------------- validate_tmr.py: the shadow copies
\* test_tmr_protection attaches three copies _v1, _v2, _v3 to the object
\* under test and defines its own vote, check and correction over them.
get_tmr_value(v1, v2, v3) ==
    IF PyEq(v1, v2) THEN v1
    ELSE IF PyEq(v1, v3) THEN v1
    ELSE IF PyEq(v2, v3) THEN v2
    ELSE v1

check_tmr_integrity(v1, v2, v3) == PyEq(v1, v2) /\ PyEq(v2, v3)

correct_tmr(v1, v2, v3) ==
    IF PyEq(v1, v2) /\ PyNe(v1, v3)
        THEN [ret |-> TRUE, v1 |-> v1, v2 |-> v2, v3 |-> v1]
    ELSE IF PyEq(v1, v3) /\ PyNe(v1, v2)
        THEN [ret |-> TRUE, v1 |-> v1, v2 |-> v1, v3 |-> v3]
    ELSE IF PyEq(v2, v3) /\ PyNe(v1, v2)
        THEN [ret |-> TRUE, v1 |-> v2, v2 |-> v2, v3 |-> v3]
    ELSE [ret |-> FALSE, v1 |-> v1, v2 |-> v2, v3 |-> v3]

\* ------------------------------------------------- the native core (_core)
\* The bindings create_standard_tmr_* / create_enhanced_tmr_* and the object
\* they return are native code: a triple of replicas with the voting read,
\* the integrity check and the single-fault correction.
core_create(initial) == [kind |-> "core", a |-> initial, b |-> initial, c |-> initial]

core_get_value(t) ==
    IF PyEq(t.a, t.b) THEN t.a
    ELSE IF PyEq(t.a, t.c) THEN t.a
    ELSE IF PyEq(t.b, t.c) THEN t.b
    ELSE t.a

core_set_value(t, new_value) ==
    [kind |-> "core", a |-> new_value, b |-> new_value, c |-> new_value]

core_check_integrity(t) == PyEq(t.a, t.b) /\ PyEq(t.b, t.c)

core_correct(t) ==
    IF PyEq(t.a, t.b) /\ PyNe(t.a, t.c)
        THEN [ret |-> TRUE, tmr |-> [t EXCEPT !.c = t.a]]
    ELSE IF PyEq(t.a, t.c) /\ PyNe(t.a, t.b)
        THEN [ret |-> TRUE, tmr |-> [t EXCEPT !.b = t.a]]
    ELSE IF PyEq(t.b, t.c) /\ PyNe(t.a, t.b)
        THEN [ret |-> TRUE, tmr |-> [t EXCEPT !.a = t.b]]
    ELSE [ret |-> FALSE, tmr |-> t]

\* A check that reports a problem when there is no core.
StandardTMR_check_integrity_NoCore(value, tmr) ==
    IF tmr = NoneV THEN FALSE ELSE core_check_integrity(tmr)

\* A constructor that lets the TypeError of an unsupported type escape.
StandardTMR_init_Uncaught(initial_value, core_ok) ==
    LET supported == IsInstance(initial_value, "int")
                     \/ IsInstance(initial_value, "float")
    IN  [raised |-> IF supported THEN "none" ELSE "TypeError",
         value |-> initial_value,
         tmr |-> IF supported /\ core_ok THEN core_create(initial_value)
                 ELSE NoneV]

\* ----------------------------------------------------------- StandardTMR
\* __init__: _value and _tmr.  core_ok: the import of ._core succeeded; when
\* it did not, the create_* names are undefined and the NameError is caught.
StandardTMR_init(initial_value, core_ok) ==
    LET \* what the body of the try statement raises
        tried == IF IsInstance(initial_value, "int")
                    \/ IsInstance(initial_value, "float")
                 THEN (IF core_ok THEN "none" ELSE "NameError")
                 ELSE "TypeError"
    IN  \* except Exception: whatever the body raised, __init__ returns
        [raised |-> "none",
         value |-> initial_value,
         tmr |-> IF tried = "none" THEN core_create(initial_value) ELSE NoneV]

StandardTMR_value_get(value, tmr) ==
    IF tmr = NoneV THEN value ELSE core_get_value(tmr)

StandardTMR_value_set(value, tmr, new_value) ==
    IF ~IsInstance(new_value, TypeOf(value))
        THEN [raised |-> "TypeError", value |-> value, tmr |-> tmr]
    ELSE [raised |-> "none", value |-> new_value,
          tmr |-> IF tmr # NoneV THEN core_set_value(tmr, new_value) ELSE tmr]

StandardTMR_correct(value, tmr) ==
    IF tmr = NoneV THEN [ret |-> FALSE, tmr |-> tmr] ELSE core_correct(tmr)

StandardTMR_check_integrity(value, tmr) ==
    IF tmr = NoneV THEN TRUE ELSE core_check_integrity(tmr)

\* A setter that accepts a value of any type.
EnhancedTMR_value_set_Unchecked(value, tmr, new_value) ==
    [raised |-> "none", value |-> new_value,
     tmr |-> IF tmr # NoneV THEN core_set_value(tmr, new_value) ELSE tmr]

\* ----------------------------------------------------------- EnhancedTMR
EnhancedTMR_init(initial_value, core_ok) ==
    LET \* what the body of the try statement raises
        tried == IF IsInstance(initial_value, "int")
                    \/ IsInstance(initial_value, "float")
                 THEN (IF core_ok THEN "none" ELSE "NameError")
                 ELSE "TypeError"
    IN  \* except Exception: whatever the body raised, __init__ returns
        [raised |-> "none",
         value |-> initial_value,
         tmr |-> IF tried = "none" THEN core_create(initial_value) ELSE NoneV]

EnhancedTMR_value_get(value, tmr) ==
    IF tmr = NoneV THEN value ELSE core_get_value(tmr)

EnhancedTMR_value_set(value, tmr, new_value) ==
    IF ~IsInstance(new_value, TypeOf(value))
        THEN [raised |-> "TypeError", value |-> value, tmr |-> tmr]
    ELSE [raised |-> "none", value |-> new_value,
          tmr |-> IF tmr # NoneV THEN core_set_value(tmr, new_value) ELSE tmr]

EnhancedTMR_correct(value, tmr) ==
    IF tmr = NoneV THEN [ret |-> FALSE, tmr |-> tmr] ELSE core_correct(tmr)

EnhancedTMR_check_integrity(value, tmr) ==
    IF tmr = NoneV THEN TRUE ELSE core_check_integrity(tmr)

\* ----------------------------------------------------------------- harness
\* The values a harness stores into one copy of an object whose value has
\* type T: the bit flip of an int (or a bool) is an int, of a float a float.
CorruptValues(T) ==
    IF T \in {"int", "bool"} THEN IntValues
    ELSE IF T = "float" THEN FloatValues
    ELSE StrValues

\* ------------------------------------------------------------- fault model
\* The width bin(value)[2:] is padded to: zfill(32).
PadWidth == 32
\* The number of bits of the pattern struct.pack('>f', value) produces.
PatternBits == 32

\* An int of any size, as the fault model sees it: its sign and the binary
\* digits of its magnitude, most significant first, as bin() prints them.
LongV(neg, digits) == [kind |-> "int", neg |-> neg, digits |-> digits]

\* The binary digits of the natural number n.
RECURSIVE Digits(_)
Digits(n) ==
    IF n < 2 THEN <<IF n = 1 THEN "1" ELSE "0">>
    ELSE Append(Digits(n \div 2), IF n % 2 = 1 THEN "1" ELSE "0")

\* bin(value)[2:]: bin() prints '0b101' and '-0b101', so the slice drops
\* '0b' of a non-negative value and '-0' of a negative one.
bin_slice(value) ==
    IF value.neg THEN <<"b">> \o value.digits ELSE value.digits

\* str.zfill(width), on a string that does not start with a sign.
zfill(str, width) ==
    IF Len(str) >= width THEN str
    ELSE [i \in 1..width |->
              IF i <= width - Len(str) THEN "0" ELSE str[i - (width - Len(str))]]

RECURSIVE lstrip_zeros(_)
lstrip_zeros(str) ==
    IF Len(str) > 1 /\ str[1] = "0" THEN lstrip_zeros(Tail(str)) ELSE str

\* A result of a call: what it raised, what it returned, and whether the
\* shift 1 << bit_position had been evaluated.
Returned(v) == [raised |-> "none", ret |-> v, shifted |-> FALSE]
Raised(e) == [raised |-> e, ret |-> NoneV, shifted |-> FALSE]

\* int(str, 2): the digits after an optional '0b' prefix; anything else is
\* a ValueError.
int_base2(str) ==
    LET body == IF Len(str) >= 2 /\ str[1] = "0" /\ str[2] = "b"
                THEN SubSeq(str, 3, Len(str)) ELSE str
    IN  IF body = <<>> \/ \E i \in 1..Len(body) : body[i] = "b"
        THEN Raised("ValueError")
        ELSE Returned(LongV(FALSE, lstrip_zeros(body)))

\* A flip that clears the digit instead of inverting it.
flip_item_Clear(binary, bit_position) ==
    LET i == IF bit_position < 0 THEN Len(binary) + bit_position + 1
             ELSE bit_position + 1
    IN  IF i < 1 \/ i > Len(binary) THEN Raised("IndexError")
        ELSE int_base2([binary EXCEPT ![i] = "0"])

\* binary[bit_position] = '1' if binary[bit_position] == '0' else '0', then
\* int(''.join(binary), 2).  A negative index counts from the end of the
\* list; an index outside the list is an IndexError.
flip_item(binary, bit_position) ==
    LET i == IF bit_position < 0 THEN Len(binary) + bit_position + 1
             ELSE bit_position + 1
    IN  IF i < 1 \/ i > Len(binary) THEN Raised("IndexError")
        ELSE int_base2([binary EXCEPT ![i] = IF @ = "0" THEN "1" ELSE "0"])

\* x ^ (1 << k), for a field x of the pattern.
XorBit(x, k) ==
    IF (x \div Pow2(k)) % 2 = 1 THEN x - Pow2(k) ELSE x + Pow2(k)

\* The conversion between a float32 and Python's float (a C double) is a C
\* cast.  It keeps every value; of a signalling NaN (quiet bit clear) the
\* cast of most builds sets the quiet bit, that of others keeps the pattern.
cast_float(s, e, m) ==
    IF e = ExpSpecial /\ m # 0 /\ m < Pow2(MantBits - 1)
        THEN {FloatV(s, e, m), FloatV(s, e, m + Pow2(MantBits - 1))}
    ELSE {FloatV(s, e, m)}

\* The float branch: struct.pack('>f', value), i ^= (1 << bit_position),
\* struct.unpack('>f', struct.pack('>I', i))[0].  A negative shift count is a
\* ValueError; a pattern of more than 32 bits is a struct.error of pack.
flip_float(value, bit_position) ==
    IF bit_position < 0 THEN {Raised("ValueError")}
    ELSE IF bit_position >= PatternBits
        THEN {[raised |-> "struct.error", ret |-> NoneV, shifted |-> TRUE]}
    ELSE UNION {
        LET s == IF bit_position = PatternBits - 1 THEN 1 - f.s ELSE f.s
            e == IF bit_position >= MantBits /\ bit_position < PatternBits - 1
                 THEN XorBit(f.e, bit_position - MantBits) ELSE f.e
            m == IF bit_position < MantBits THEN XorBit(f.m, bit_position)
                 ELSE f.m
        IN  {[raised |-> "none", ret |-> r, shifted |-> TRUE] :
                 r \in cast_float(s, e, m)}
        : f \in cast_float(value.s, value.e, value.m)}

\* Variants of the fault model, which the claims below tell from the code.
\* An int flip that counts bit_position from the least significant digit.
simulate_bit_flip_LSB(value, bit_position) ==
    IF IsInstance(value, "int")
        THEN LET binary == zfill(bin_slice(value), PadWidth)
             IN  IF bit_position >= 0 /\ bit_position < Len(binary)
                     THEN {flip_item(binary, Len(binary) - 1 - bit_position)}
                 ELSE {Returned(value)}
    ELSE IF IsInstance(value, "float") THEN flip_float(value, bit_position)
    ELSE {Raised("TypeError")}

\* advanced_tmr_demo.simulate_bit_flip(value, bit_position): the set of its
\* possible results.
simulate_bit_flip(value, bit_position) ==
    IF IsInstance(value, "int")
        THEN LET binary == zfill(bin_slice(value), PadWidth)
             IN  IF bit_position < Len(binary)
                     THEN {flip_item(binary, bit_position)}
                 ELSE {Returned(value)}
    ELSE IF IsInstance(value, "float") THEN flip_float(value, bit_position)
    ELSE {Raised("TypeError")}

\* validate_tmr.simulate_bit_flip(value, bit_position)
validate_simulate_bit_flip(value, bit_position) ==
    IF IsInstance(value, "int")
        THEN {flip_item(zfill(bin_slice(value), PadWidth), bit_position)}
    ELSE IF IsInstance(value, "float") THEN flip_float(value, bit_position)
    ELSE {Raised("TypeError")}

\* examples/tmr_example.simulate_radiation_effect(value, bit_pos): bin() of
\* anything but an int is a TypeError.
simulate_radiation_effect(value, bit_pos) ==
    IF IsInstance(value, "int")
        THEN {flip_item(zfill(bin_slice(value), PadWidth), bit_pos)}
    ELSE {Raised("TypeError")}

\* The positions a caller passes are -MaxPos..MaxPos.
MaxPos == 35

\* digits followed by k zeros: the digits of the value shifted left by k.
Shl(digits, k) == digits \o [i \in 1..k |-> "0"]

\* The shifts that give magnitudes of 30 to 34 binary digits.
Shifts == {PadWidth - 3, PadWidth - 1, PadWidth}

Magnitudes ==
    {Digits(n) : n \in 0..MaxInt} \cup {Digits(InitialCounter)}
    \cup {Shl(Digits(n), k) : n \in 1..MaxInt, k \in Shifts}

\* The ints given to the fault model: non-negative and negative, of fewer
\* and of more than 32 binary digits.
FlipIntValues ==
    {LongV(FALSE, d) : d \in Magnitudes}
    \cup {LongV(TRUE, d) : d \in Magnitudes \ {Digits(0)}}

FloatInf == FloatV(0, ExpSpecial, 0)
FloatOneAndQuarter == FloatV(0, ExpBias, Pow2(MantBits - 2))

\* The floats given to the fault model.
FlipFloatValues == FloatValues \cup {FloatInf, FloatOneAndQuarter}

FlipValues == FlipIntValues \cup FlipFloatValues \cup StrValues

FlipPositions == (0 - MaxPos)..MaxPos

\* The three implementations of the bit flip, by their module.
FlipImpls == {"advanced_tmr_demo", "validate_tmr", "tmr_example"}

Call(impl, value, bit_position) ==
    IF impl = "advanced_tmr_demo" THEN simulate_bit_flip(value, bit_position)
    ELSE IF impl = "validate_tmr"
        THEN validate_simulate_bit_flip(value, bit_position)
    ELSE simulate_radiation_effect(value, bit_position)

\* ---------------------------------------------------- harness corruption
\* The positions the harnesses flip: random.randint(0, 7) in
\* advanced_tmr_demo.py, random.randint(0, 31) in validate_tmr.py.
BitsToFlip == {7, PadWidth - 1}

\* A stored int (or bool), as the fault model sees it.
ToLong(x) ==
    IF x.kind \in {"int", "bool"} THEN LongV(FALSE, Digits(x.n)) ELSE x

\* The number a string of binary digits denotes.
RECURSIVE Number(_)
Number(digits) ==
    IF digits = <<>> THEN 0
    ELSE 2 * Number(SubSeq(digits, 1, Len(digits) - 1))
         + (IF digits[Len(digits)] = "1" THEN 1 ELSE 0)

\* The int the fault model returned, as a stored value.
FromLong(x) == IF x.kind = "int" THEN IntV(Number(x.digits)) ELSE x

\* A harness that stores the corrupted value into copy 3 whatever it chose.
corrupt_one_Copy3(v1, v2, v3, corrupt_copy, corrupted_value) ==
    [v1 |-> v1, v2 |-> v2, v3 |-> corrupted_value]

\* if corrupt_copy == 1: tmr.value1 = corrupted_value; elif corrupt_copy ==
\* 2: tmr.value2 = corrupted_value; else: tmr.value3 = corrupted_value
corrupt_one(v1, v2, v3, corrupt_copy, corrupted_value) ==
    IF corrupt_copy = 1 THEN [v1 |-> corrupted_value, v2 |-> v2, v3 |-> v3]
    ELSE IF corrupt_copy = 2
        THEN [v1 |-> v1, v2 |-> corrupted_value, v3 |-> v3]
    ELSE [v1 |-> v1, v2 |-> v2, v3 |-> corrupted_value]

\* --------------------------------------------- correct(), step by step
\* A correct() that repairs copy 3 from copy 2.
correct_step_FromCopy2(pc, v1, v2, v3) ==
    LET goto(l) == [pc |-> l, ret |-> FALSE, v1 |-> v1, v2 |-> v2, v3 |-> v3]
    IN  IF pc = "if1a" THEN goto(IF PyEq(v1, v2) THEN "if1b" ELSE "if2a")
        ELSE IF pc = "if1b" THEN goto(IF PyNe(v1, v3) THEN "set3" ELSE "if2a")
        ELSE IF pc = "set3"
            THEN [pc |-> "done", ret |-> TRUE, v1 |-> v1, v2 |-> v2, v3 |-> v2]
        ELSE IF pc = "if2a" THEN goto(IF PyEq(v1, v3) THEN "if2b" ELSE "if3a")
        ELSE IF pc = "if2b" THEN goto(IF PyNe(v1, v2) THEN "set2" ELSE "if3a")
        ELSE IF pc = "set2"
            THEN [pc |-> "done", ret |-> TRUE, v1 |-> v1, v2 |-> v1, v3 |-> v3]
        ELSE IF pc = "if3a" THEN goto(IF PyEq(v2, v3) THEN "if3b" ELSE "done")
        ELSE IF pc = "if3b" THEN goto(IF PyNe(v1, v2) THEN "set1" ELSE "done")
        ELSE IF pc = "set1"
            THEN [pc |-> "done", ret |-> TRUE, v1 |-> v2, v2 |-> v2, v3 |-> v3]
        ELSE goto("done")

\* A correct() that assigns copy 3 whenever copies 1 and 2 agree.
correct_step_NoCompare3(pc, v1, v2, v3) ==
    LET goto(l) == [pc |-> l, ret |-> FALSE, v1 |-> v1, v2 |-> v2, v3 |-> v3]
    IN  IF pc = "if1a" THEN goto(IF PyEq(v1, v2) THEN "set3" ELSE "if2a")
        ELSE IF pc = "set3"
            THEN [pc |-> "done", ret |-> TRUE, v1 |-> v1, v2 |-> v2, v3 |-> v1]
        ELSE goto("done")

\* One step of EnhancedTMRDemo.correct() from the position pc: a comparison
\* of two copies, or the assignment of one copy (with the return that
\* follows it).  The result is the next position, the copies, and the value
\* returned once the position is "done".
correct_step(pc, v1, v2, v3) ==
    LET goto(l) == [pc |-> l, ret |-> FALSE, v1 |-> v1, v2 |-> v2, v3 |-> v3]
    IN  IF pc = "if1a" THEN goto(IF PyEq(v1, v2) THEN "if1b" ELSE "if2a")
        ELSE IF pc = "if1b" THEN goto(IF PyNe(v1, v3) THEN "set3" ELSE "if2a")
        ELSE IF pc = "set3"
            THEN [pc |-> "done", ret |-> TRUE, v1 |-> v1, v2 |-> v2, v3 |-> v1]
        ELSE IF pc = "if2a" THEN goto(IF PyEq(v1, v3) THEN "if2b" ELSE "if3a")
        ELSE IF pc = "if2b" THEN goto(IF PyNe(v1, v2) THEN "set2" ELSE "if3a")
        ELSE IF pc = "set2"
            THEN [pc |-> "done", ret |-> TRUE, v1 |-> v1, v2 |-> v1, v3 |-> v3]
        ELSE IF pc = "if3a" THEN goto(IF PyEq(v2, v3) THEN "if3b" ELSE "done")
        ELSE IF pc = "if3b" THEN goto(IF PyNe(v1, v2) THEN "set1" ELSE "done")
        ELSE IF pc = "set1"
            THEN [pc |-> "done", ret |-> TRUE, v1 |-> v2, v2 |-> v2, v3 |-> v3]
        ELSE goto("done")

\* The positions at which correct() assigns a copy.
Assignments == {"set1", "set2", "set3"}

\* The threads that call correct() on one object.
Threads == {1, 2}

\* The values the copies of that object hold when the calls start.
RaceValues == {IntV(0), IntV(1), FloatOne, FloatNaN}

\* ------------------------------------------------------------------- state
VARIABLES
    obj,         \* the class of the object under test
    value_type,  \* EnhancedTMRDemo.value_type
    value1,      \* EnhancedTMRDemo.value1, or the shadow copy _v1
    value2,      \* EnhancedTMRDemo.value2, or the shadow copy _v2
    value3,      \* EnhancedTMRDemo.value3, or the shadow copy _v3
    _value,      \* StandardTMR._value / EnhancedTMR._value
    _tmr,        \* StandardTMR._tmr / EnhancedTMR._tmr: None or the core
    init_kind,   \* the type of the initial value given at construction
    last,        \* the last operation: its name, argument, result
    pre,         \* the object's fields before the last operation
    fm,          \* a call of the fault model and the call on its result
    proc,        \* the concurrent callers of one object: their positions
    hist,        \* the value last written, and whether a corruption is pending
    harness      \* a harness run: its trial, its position and its counters

vars == <<obj, value_type, value1, value2, value3, _value, _tmr,
          init_kind, last, pre, fm, proc, hist, harness>>

\* No call of the fault model on its own, no concurrent callers.
FmIdle == [pc |-> "idle"]
NoProc == <<>>
\* No record of what was written, no harness running.
NoHist == [written |-> NoneV]
NoHarness == [pc |-> "idle"]

WrapperClasses == {"StandardTMR", "EnhancedTMR"}

\* The objects that hold three copies: an EnhancedTMRDemo, or the shadow
\* copies of validate_tmr.py.
TripleClasses == {"EnhancedTMRDemo", "validate_tmr"}

DemoFields == [value_type |-> value_type, value1 |-> value1,
               value2 |-> value2, value3 |-> value3]

WrapperFields == [value |-> _value, tmr |-> _tmr]

Op(name, arg, copy, ret, raised) ==
    [op |-> name, arg |-> arg, copy |-> copy, ret |-> ret, raised |-> raised]

PyBool(b) == IF b THEN PyTrue ELSE PyFalse

\* EnhancedTMRDemo(initial_value)
DemoInit ==
    \E initial_value \in Values :
        /\ obj = "EnhancedTMRDemo"
        /\ value_type = TypeOf(initial_value)
        /\ value1 = initial_value
        /\ value2 = initial_value
        /\ value3 = initial_value
        /\ _value = NoneV
        /\ _tmr = NoneV
        /\ init_kind = TypeOf(initial_value)
        /\ last = Op("init", initial_value, 0, NoneV, "none")
        /\ pre = [value_type |-> TypeOf(initial_value), value1 |-> initial_value,
                  value2 |-> initial_value, value3 |-> initial_value]
        /\ fm = FmIdle
        /\ proc = NoProc
        /\ hist = NoHist
        /\ harness = NoHarness

\* validate_tmr.py: tmr._v1 = tmr._v2 = tmr._v3 = original_value, an int
\* (random.randint) or a float (random.uniform).
ShadowInit ==
    \E original_value \in IntValues \cup FloatValues :
        /\ obj = "validate_tmr"
        /\ value_type = "NoneType"
        /\ value1 = original_value
        /\ value2 = original_value
        /\ value3 = original_value
        /\ _value = NoneV
        /\ _tmr = NoneV
        /\ init_kind = TypeOf(original_value)
        /\ last = Op("init", original_value, 0, NoneV, "none")
        /\ pre = [value_type |-> "NoneType", value1 |-> original_value,
                  value2 |-> original_value, value3 |-> original_value]
        /\ fm = FmIdle
        /\ proc = NoProc
        /\ hist = NoHist
        /\ harness = NoHarness

\* StandardTMR(initial_value) / EnhancedTMR(initial_value)
WrapperInit ==
    \E cls \in WrapperClasses, initial_value \in Values, core_ok \in BOOLEAN :
        LET w == IF cls = "StandardTMR"
                 THEN StandardTMR_init(initial_value, core_ok)
                 ELSE EnhancedTMR_init(initial_value, core_ok)
        IN  /\ obj = cls
            /\ value_type = "NoneType"
            /\ value1 = NoneV
            /\ value2 = NoneV
            /\ value3 = NoneV
            /\ _value = w.value
            /\ _tmr = w.tmr
            /\ init_kind = TypeOf(initial_value)
            /\ last = Op("init", initial_value, 0, NoneV, w.raised)
            /\ pre = [value |-> w.value, tmr |-> w.tmr]
            /\ fm = FmIdle
            /\ proc = NoProc
            /\ hist = NoHist
            /\ harness = NoHarness

Init == DemoInit \/ ShadowInit \/ WrapperInit

\* tmr.value / get_tmr_value()
Read ==
    /\ obj \in TripleClasses
    /\ last' = Op("read", NoneV, 0,
                  IF obj = "EnhancedTMRDemo" THEN value_get(value1, value2, value3)
                  ELSE get_tmr_value(value1, value2, value3), "none")
    /\ pre' = DemoFields
    /\ UNCHANGED <<hist, harness, fm, proc, obj, value_type, value1, value2, value3, _value, _tmr, init_kind>>

\* tmr.value = new_value
Write(new_value) ==
    /\ obj = "EnhancedTMRDemo"
    /\ LET r == value_set(value_type, value1, value2, value3, new_value)
       IN  /\ value1' = r.v1
           /\ value2' = r.v2
           /\ value3' = r.v3
           /\ last' = Op("write", new_value, 0, NoneV, r.raised)
    /\ pre' = DemoFields
    /\ UNCHANGED <<hist, harness, fm, proc, obj, value_type, _value, _tmr, init_kind>>

\* tmr.check_integrity() / check_tmr_integrity()
CheckIntegrity ==
    /\ obj \in TripleClasses
    /\ last' = Op("check_integrity", NoneV, 0,
                  PyBool(IF obj = "EnhancedTMRDemo"
                         THEN check_integrity(value1, value2, value3)
                         ELSE check_tmr_integrity(value1, value2, value3)), "none")
    /\ pre' = DemoFields
    /\ UNCHANGED <<hist, harness, fm, proc, obj, value_type, value1, value2, value3, _value, _tmr, init_kind>>

\* tmr.correct() / correct_tmr()
Correct ==
    /\ obj \in TripleClasses
    /\ LET r == IF obj = "EnhancedTMRDemo" THEN correct(value1, value2, value3)
                ELSE correct_tmr(value1, value2, value3)
       IN  /\ value1' = r.v1
           /\ value2' = r.v2
           /\ value3' = r.v3
           /\ last' = Op("correct", NoneV, 0, PyBool(r.ret), "none")
    /\ pre' = DemoFields
    /\ UNCHANGED <<hist, harness, fm, proc, obj, value_type, _value, _tmr, init_kind>>

\* The harness stores a corrupted value into one copy: tmr.value<copy> = v,
\* or tmr._v<copy> = v.
Corrupt(copy, v) ==
    /\ obj \in TripleClasses
    /\ v \in CorruptValues(init_kind)
    /\ value1' = (IF copy = 1 THEN v ELSE value1)
    /\ value2' = (IF copy = 2 THEN v ELSE value2)
    /\ value3' = (IF copy = 3 THEN v ELSE value3)
    /\ last' = Op("corrupt", v, copy, NoneV, "none")
    /\ pre' = DemoFields
    /\ UNCHANGED <<hist, harness, fm, proc, obj, value_type, _value, _tmr, init_kind>>

\* One corruption step of a harness, on the object it has just created:
\* corrupted_value = simulate_bit_flip(tmr.value<copy>, bit_to_flip), then
\* tmr.value<copy> = corrupted_value (advanced_tmr_demo.py);
\* corrupted_value = simulate_bit_flip(original_value, bit_to_flip), then
\* tmr._v<copy> = corrupted_value (validate_tmr.py).  The harnesses create
\* their objects with an int (random.randint) or a float (random.uniform).
\* When the fault model raises, nothing is stored.
BitFlip(corrupt_copy, bit_to_flip) ==
    /\ obj \in TripleClasses
    /\ last.op = "init"
    /\ init_kind \in {"int", "float"}
    /\ LET target == IF obj = "EnhancedTMRDemo"
                     THEN (IF corrupt_copy = 1 THEN value1
                           ELSE IF corrupt_copy = 2 THEN value2 ELSE value3)
                     ELSE last.arg
           results == IF obj = "EnhancedTMRDemo"
                      THEN simulate_bit_flip(ToLong(target), bit_to_flip)
                      ELSE validate_simulate_bit_flip(ToLong(target), bit_to_flip)
       IN  \E r \in results :
               LET corrupted_value == FromLong(r.ret)
                   c == IF r.raised = "none"
                        THEN corrupt_one(value1, value2, value3, corrupt_copy,
                                         corrupted_value)
                        ELSE [v1 |-> value1, v2 |-> value2, v3 |-> value3]
               IN  /\ value1' = c.v1
                   /\ value2' = c.v2
                   /\ value3' = c.v3
                   /\ last' = Op("bit_flip", IntV(bit_to_flip), corrupt_copy,
                                 corrupted_value, r.raised)
    /\ pre' = DemoFields
    /\ UNCHANGED <<hist, harness, fm, proc, obj, value_type, _value, _tmr, init_kind>>

\* counter.value
WRead ==
    /\ obj \in WrapperClasses
    /\ last' = Op("read", NoneV, 0,
                  IF obj = "StandardTMR" THEN StandardTMR_value_get(_value, _tmr)
                  ELSE EnhancedTMR_value_get(_value, _tmr), "none")
    /\ pre' = WrapperFields
    /\ UNCHANGED <<hist, harness, fm, proc, obj, value_type, value1, value2, value3, _value, _tmr, init_kind>>

\* counter.value = new_value
WWrite(new_value) ==
    /\ obj \in WrapperClasses
    /\ LET r == IF obj = "StandardTMR"
                THEN StandardTMR_value_set(_value, _tmr, new_value)
                ELSE EnhancedTMR_value_set(_value, _tmr, new_value)
       IN  /\ _value' = r.value
           /\ _tmr' = r.tmr
           /\ last' = Op("write", new_value, 0, NoneV, r.raised)
    /\ pre' = WrapperFields
    /\ UNCHANGED <<hist, harness, fm, proc, obj, value_type, value1, value2, value3, init_kind>>

\* counter.check_integrity()
WCheckIntegrity ==
    /\ obj \in WrapperClasses
    /\ last' = Op("check_integrity", NoneV, 0,
                  PyBool(IF obj = "StandardTMR"
                         THEN StandardTMR_check_integrity(_value, _tmr)
                         ELSE EnhancedTMR_check_integrity(_value, _tmr)), "none")
    /\ pre' = WrapperFields
    /\ UNCHANGED <<hist, harness, fm, proc, obj, value_type, value1, value2, value3, _value, _tmr, init_kind>>

\* counter.correct()
WCorrect ==
    /\ obj \in WrapperClasses
    /\ LET r == IF obj = "StandardTMR" THEN StandardTMR_correct(_value, _tmr)
                ELSE EnhancedTMR_correct(_value, _tmr)
       IN  /\ _tmr' = r.tmr
           /\ last' = Op("correct", NoneV, 0, PyBool(r.ret), "none")
    /\ pre' = WrapperFields
    /\ UNCHANGED <<hist, harness, fm, proc, obj, value_type, value1, value2, value3, _value, init_kind>>

\* The fallback corruption of the test script: with no core, the stored value
\* is overwritten directly (counter._value = 43).
WCorruptValue(v) ==
    /\ obj \in WrapperClasses
    /\ _tmr = NoneV
    /\ v \in CorruptValues(TypeOf(_value))
    /\ _value' = v
    /\ last' = Op("corrupt", v, 0, NoneV, "none")
    /\ pre' = WrapperFields
    /\ UNCHANGED <<hist, harness, fm, proc, obj, value_type, value1, value2, value3, _tmr, init_kind>>

Next ==
    \/ Read
    \/ \E new_value \in Values : Write(new_value)
    \/ CheckIntegrity
    \/ Correct
    \/ \E copy \in 1..3, v \in Values : Corrupt(copy, v)
    \/ \E corrupt_copy \in 1..3, bit_to_flip \in BitsToFlip :
           BitFlip(corrupt_copy, bit_to_flip)
    \/ WRead
    \/ \E new_value \in Values : WWrite(new_value)
    \/ WCheckIntegrity
    \/ WCorrect
    \/ \E v \in Values : WCorruptValue(v)

Spec == Init /\ [][Next]_vars

\* ------------------------------------------------- the fault model, called
\* A caller picks an implementation, a value and a position.
FlipInit ==
    \E impl \in FlipImpls, value \in FlipValues, bit_position \in FlipPositions :
        /\ fm = [pc |-> "start", impl |-> impl, value |-> value,
                 bit_position |-> bit_position,
                 out |-> Raised("none"), back |-> Raised("none")]
        /\ obj = "fault model"
        /\ value_type = "NoneType"
        /\ value1 = NoneV
        /\ value2 = NoneV
        /\ value3 = NoneV
        /\ _value = NoneV
        /\ _tmr = NoneV
        /\ init_kind = TypeOf(value)
        /\ last = Op("none", NoneV, 0, NoneV, "none")
        /\ pre = NoneV
        /\ proc = NoProc
        /\ hist = NoHist
        /\ harness = NoHarness

\* out = flip(value, bit_position)
Flip ==
    /\ fm.pc = "start"
    /\ \E r \in Call(fm.impl, fm.value, fm.bit_position) :
           fm' = [fm EXCEPT !.out = r, !.pc = "flipped"]
    /\ UNCHANGED <<obj, value_type, value1, value2, value3, _value, _tmr,
                   init_kind, last, pre, proc, hist, harness>>

\* back = flip(out, bit_position), when the first call returned
FlipBack ==
    /\ fm.pc = "flipped"
    /\ fm.out.raised = "none"
    /\ \E r \in Call(fm.impl, fm.out.ret, fm.bit_position) :
           fm' = [fm EXCEPT !.back = r, !.pc = "back"]
    /\ UNCHANGED <<obj, value_type, value1, value2, value3, _value, _tmr,
                   init_kind, last, pre, proc, hist, harness>>

FlipNext == Flip \/ FlipBack

SpecFlip == FlipInit /\ [][FlipNext]_vars

\* ------------------------------------------- two threads calling correct()
\* Two threads call correct() on one EnhancedTMRDemo, with no lock: each
\* comparison and each assignment is a step of its own.  A thread records
\* the copies it found when it assigned (at) and whether a thread had
\* assigned before it (after).
RaceInit ==
    \E v1 \in RaceValues, v2 \in RaceValues, v3 \in RaceValues :
        /\ obj = "EnhancedTMRDemo, two threads"
        /\ value_type = "NoneType"
        /\ value1 = v1
        /\ value2 = v2
        /\ value3 = v3
        /\ _value = NoneV
        /\ _tmr = NoneV
        /\ init_kind = "NoneType"
        /\ last = Op("none", NoneV, 0, NoneV, "none")
        /\ pre = [value_type |-> "NoneType", value1 |-> v1, value2 |-> v2,
                  value3 |-> v3]
        /\ fm = FmIdle
        /\ proc = [t \in Threads |->
                      [pc |-> "if1a", ret |-> FALSE, assigned |-> FALSE,
                       after |-> FALSE, at |-> DemoFields]]
        /\ hist = NoHist
        /\ harness = NoHarness

\* Thread t takes its next step.
CorrectStep(t) ==
    /\ proc # NoProc
    /\ proc[t].pc # "done"
    /\ LET r == correct_step(proc[t].pc, value1, value2, value3)
           assigns == proc[t].pc \in Assignments
       IN  /\ value1' = r.v1
           /\ value2' = r.v2
           /\ value3' = r.v3
           /\ proc' = [proc EXCEPT ![t] =
                  [pc |-> r.pc, ret |-> r.ret,
                   assigned |-> assigns,
                   after |-> assigns /\ \E u \in Threads \ {t} : proc[u].assigned,
                   at |-> IF assigns THEN DemoFields ELSE @.at]]
    /\ UNCHANGED <<obj, value_type, _value, _tmr, init_kind, last, pre, fm, hist,
                   harness>>

RaceNext == \E t \in Threads : CorrectStep(t)

SpecRace == RaceInit /\ [][RaceNext]_vars

\* ------------------------------------- a write racing with a correct()
\* A setter that assigns the copies in the order third, second, first.
value_set_step_Reversed(pc, vt, v1, v2, v3, new_value) ==
    IF pc = "isinstance"
        THEN [pc |-> IF IsInstance(new_value, vt) THEN "assign1" ELSE "done",
              raised |-> IF IsInstance(new_value, vt) THEN "none" ELSE "TypeError",
              v1 |-> v1, v2 |-> v2, v3 |-> v3]
    ELSE IF pc = "assign1"
        THEN [pc |-> "assign2", raised |-> "none",
              v1 |-> v1, v2 |-> v2, v3 |-> new_value]
    ELSE IF pc = "assign2"
        THEN [pc |-> "assign3", raised |-> "none",
              v1 |-> v1, v2 |-> new_value, v3 |-> v3]
    ELSE [pc |-> "done", raised |-> "none",
          v1 |-> new_value, v2 |-> v2, v3 |-> v3]

\* One step of the value setter: the isinstance check, or the assignment of
\* one copy.
value_set_step(pc, vt, v1, v2, v3, new_value) ==
    IF pc = "isinstance"
        THEN [pc |-> IF IsInstance(new_value, vt) THEN "assign1" ELSE "done",
              raised |-> IF IsInstance(new_value, vt) THEN "none" ELSE "TypeError",
              v1 |-> v1, v2 |-> v2, v3 |-> v3]
    ELSE IF pc = "assign1"
        THEN [pc |-> "assign2", raised |-> "none",
              v1 |-> new_value, v2 |-> v2, v3 |-> v3]
    ELSE IF pc = "assign2"
        THEN [pc |-> "assign3", raised |-> "none",
              v1 |-> v1, v2 |-> new_value, v3 |-> v3]
    ELSE [pc |-> "done", raised |-> "none",
          v1 |-> v1, v2 |-> v2, v3 |-> new_value]

\* The thread that calls correct() and the thread that writes.
Corrector == 1
Writer == 2

\* The copies of the int object when the two calls start, and the values
\* written (one of them not an int).
WriteRaceCopies == {IntV(0), IntV(1)}
WriteRaceWritten == {IntV(1), IntV(2), PyTrue, FloatOneAndHalf}

\* One thread calls correct() and one assigns tmr.value = new_value, on one
\* EnhancedTMRDemo of ints, with no lock.  hist holds the value written, pre
\* the copies at the start.
WriteRaceInit ==
    \E v1 \in WriteRaceCopies, v2 \in WriteRaceCopies, v3 \in WriteRaceCopies,
       new_value \in WriteRaceWritten :
        /\ obj = "EnhancedTMRDemo, writer and corrector"
        /\ value_type = "int"
        /\ value1 = v1
        /\ value2 = v2
        /\ value3 = v3
        /\ _value = NoneV
        /\ _tmr = NoneV
        /\ init_kind = "int"
        /\ last = Op("none", NoneV, 0, NoneV, "none")
        /\ pre = [value_type |-> "int", value1 |-> v1, value2 |-> v2,
                  value3 |-> v3]
        /\ fm = FmIdle
        /\ proc = [t \in {Corrector, Writer} |->
                      IF t = Corrector
                          THEN [pc |-> "if1a", ret |-> FALSE]
                      ELSE [pc |-> "isinstance", raised |-> "none"]]
        /\ hist = [written |-> new_value]
        /\ harness = NoHarness

\* The corrector takes its next step.
RaceCorrectStep ==
    /\ proc # NoProc
    /\ proc[Corrector].pc # "done"
    /\ LET r == correct_step(proc[Corrector].pc, value1, value2, value3)
       IN  /\ value1' = r.v1
           /\ value2' = r.v2
           /\ value3' = r.v3
           /\ proc' = [proc EXCEPT ![Corrector] = [pc |-> r.pc, ret |-> r.ret]]
    /\ UNCHANGED <<obj, value_type, _value, _tmr, init_kind, last, pre, fm, hist,
                   harness>>

\* The writer takes its next step.
RaceWriteStep ==
    /\ proc # NoProc
    /\ proc[Writer].pc # "done"
    /\ LET r == value_set_step(proc[Writer].pc, value_type, value1, value2,
                               value3, hist.written)
       IN  /\ value1' = r.v1
           /\ value2' = r.v2
           /\ value3' = r.v3
           /\ proc' = [proc EXCEPT ![Writer] = [pc |-> r.pc, raised |-> r.raised]]
    /\ UNCHANGED <<obj, value_type, _value, _tmr, init_kind, last, pre, fm, hist,
                   harness>>

WriteRaceNext == RaceCorrectStep \/ RaceWriteStep

SpecWriteRace == WriteRaceInit /\ [][WriteRaceNext]_vars

\* ------------------------------------------- the single-fault discipline
\* An EnhancedTMRDemo under a caller that writes, corrupts one copy and
\* corrects, and lets a correct() follow every corruption before it corrupts
\* again.  hist records the value last written (the initial value counts)
\* and whether a corruption still waits for its correct().
DisciplineInit ==
    \E initial_value \in Values :
        /\ obj = "EnhancedTMRDemo"
        /\ value_type = TypeOf(initial_value)
        /\ value1 = initial_value
        /\ value2 = initial_value
        /\ value3 = initial_value
        /\ _value = NoneV
        /\ _tmr = NoneV
        /\ init_kind = TypeOf(initial_value)
        /\ last = Op("init", initial_value, 0, NoneV, "none")
        /\ pre = [value_type |-> "NoneType", value1 |-> NoneV,
                  value2 |-> NoneV, value3 |-> NoneV]
        /\ fm = FmIdle
        /\ proc = NoProc
        /\ hist = [written |-> initial_value, pending |-> FALSE]
        /\ harness = NoHarness

\* tmr.value = new_value
DWrite(new_value) ==
    /\ LET r == value_set(value_type, value1, value2, value3, new_value)
       IN  /\ value1' = r.v1
           /\ value2' = r.v2
           /\ value3' = r.v3
           /\ last' = Op("write", new_value, 0, NoneV, r.raised)
           /\ hist' = IF r.raised = "none"
                      THEN [hist EXCEPT !.written = new_value] ELSE hist
    /\ UNCHANGED <<obj, value_type, _value, _tmr, init_kind, pre, fm, proc,
                   harness>>

\* tmr.value<copy> = v, when no corruption waits for its correct()
DCorrupt(copy, v) ==
    /\ ~hist.pending
    /\ LET c == corrupt_one(value1, value2, value3, copy, v)
       IN  /\ value1' = c.v1
           /\ value2' = c.v2
           /\ value3' = c.v3
    /\ last' = Op("corrupt", v, copy, NoneV, "none")
    /\ hist' = [hist EXCEPT !.pending = TRUE]
    /\ UNCHANGED <<obj, value_type, _value, _tmr, init_kind, pre, fm, proc,
                   harness>>

\* tmr.correct()
DCorrect ==
    /\ LET r == correct(value1, value2, value3)
       IN  /\ value1' = r.v1
           /\ value2' = r.v2
           /\ value3' = r.v3
           /\ last' = Op("correct", NoneV, 0, PyBool(r.ret), "none")
    /\ hist' = [hist EXCEPT !.pending = FALSE]
    /\ UNCHANGED <<obj, value_type, _value, _tmr, init_kind, pre, fm, proc,
                   harness>>

\* tmr.value
DRead ==
    /\ last' = Op("read", NoneV, 0, value_get(value1, value2, value3), "none")
    /\ UNCHANGED <<obj, value_type, value1, value2, value3, _value, _tmr,
                   init_kind, pre, fm, proc, hist, harness>>

DisciplineNext ==
    \/ \E new_value \in Values : DWrite(new_value)
    \/ \E copy \in 1..3, v \in Values : DCorrupt(copy, v)
    \/ DCorrect
    \/ DRead

SpecDiscipline == DisciplineInit /\ [][DisciplineNext]_vars

\* ------------------------------------------------------- the harnesses
\* run_tmr_demonstration(num_tests) of advanced_tmr_demo.py and
\* test_tmr_protection(value_type, num_tests) of validate_tmr.py: a loop of
\* trials over three counters, then a report.
Harnesses == {"run_tmr_demonstration", "test_tmr_protection"}

\* num_tests is 0..MaxTests.
MaxTests == 2

\* The values the harnesses draw: random.randint(1, ...), random.uniform(1.0,
\* ...).
HarnessInts == IntValues \ {IntV(0)}
HarnessFloats == {FloatOne, FloatOneAndQuarter, FloatOneAndHalf}

\* The positions run_tmr_demonstration draws: random.randint(0, 7).
DemoBits == {1, 7}

\* The object property(lambda self: get_tmr_value()) builds.
PropertyV == [kind |-> "property", n |-> 0]

\* The counter one trial increments, from the copies after the corruption
\* step: the branches of the harness over check_integrity(), correct() and
\* the comparison of the voted value with original_value.
trial_counter(h, v1, v2, v3, original_value, should_corrupt) ==
    IF h = "run_tmr_demonstration"
        THEN IF should_corrupt
                 THEN IF ~check_integrity(v1, v2, v3)
                          THEN LET r == correct(v1, v2, v3)
                               IN  IF r.ret
                                       THEN IF PyEq(value_get(r.v1, r.v2, r.v3),
                                                    original_value)
                                                THEN "successful_corrections"
                                            ELSE "failed_corrections"
                                   ELSE "failed_corrections"
                      ELSE IF PyEq(value_get(v1, v2, v3), original_value)
                               THEN "no_corruption"
                           ELSE "failed_corrections"
             ELSE IF check_integrity(v1, v2, v3) THEN "no_corruption"
                  ELSE "failed_corrections"
    ELSE IF should_corrupt
             THEN IF ~check_tmr_integrity(v1, v2, v3)
                      THEN LET r == correct_tmr(v1, v2, v3)
                           IN  IF r.ret
                                   THEN IF PyEq(get_tmr_value(r.v1, r.v2, r.v3),
                                                original_value)
                                            THEN "successful_corrections"
                                        ELSE "failed_corrections"
                               ELSE "failed_corrections"
                  ELSE "failed_corrections"
         ELSE IF check_tmr_integrity(v1, v2, v3) THEN "no_corruption"
              ELSE "failed_corrections"

HarnessInit ==
    \E h \in Harnesses, num_tests \in 0..MaxTests, vt \in {"int", "float"} :
        /\ obj = h
        /\ harness = [pc |-> "loop", num_tests |-> num_tests,
                      value_type |-> IF h = "test_tmr_protection" THEN vt
                                     ELSE "NoneType",
                      i |-> 0, original_value |-> NoneV,
                      successful_corrections |-> 0, failed_corrections |-> 0,
                      no_corruption |-> 0, raised |-> "none"]
        /\ value_type = "NoneType"
        /\ value1 = NoneV
        /\ value2 = NoneV
        /\ value3 = NoneV
        /\ _value = NoneV
        /\ _tmr = NoneV
        /\ init_kind = "NoneType"
        /\ last = Op("none", NoneV, 0, NoneV, "none")
        /\ pre = NoneV
        /\ fm = FmIdle
        /\ proc = NoProc
        /\ hist = NoHist

\* The head of a trial: the value is drawn and the object created.
\* test_tmr_protection then attaches the copies _v1, _v2, _v3 and assigns
\* tmr.value = property(...), which goes through the setter of the class.
HCreate(original_value, core_ok) ==
    /\ harness.pc = "loop"
    /\ harness.i < harness.num_tests
    /\ value1' = original_value
    /\ value2' = original_value
    /\ value3' = original_value
    /\ IF obj = "run_tmr_demonstration"
           THEN /\ original_value \in (IF harness.i % 2 = 0 THEN HarnessInts
                                       ELSE HarnessFloats)
                /\ value_type' = TypeOf(original_value)
                /\ harness' = [harness EXCEPT !.pc = "created",
                                              !.original_value = original_value]
                /\ UNCHANGED <<_value, _tmr>>
       ELSE /\ original_value \in (IF harness.value_type = "int"
                                   THEN HarnessInts ELSE HarnessFloats)
            /\ LET w == IF harness.value_type = "int"
                        THEN StandardTMR_init(original_value, core_ok)
                        ELSE EnhancedTMR_init(original_value, core_ok)
                   r == IF harness.value_type = "int"
                        THEN StandardTMR_value_set(w.value, w.tmr, PropertyV)
                        ELSE EnhancedTMR_value_set(w.value, w.tmr, PropertyV)
               IN  /\ _value' = r.value
                   /\ _tmr' = r.tmr
                   /\ harness' = [harness EXCEPT
                          !.pc = IF r.raised = "none" THEN "created"
                                 ELSE "crashed",
                          !.raised = r.raised,
                          !.original_value = original_value]
            /\ UNCHANGED value_type
    /\ UNCHANGED <<obj, init_kind, last, pre, fm, proc, hist>>

\* The corruption step of a trial: with should_corrupt, one copy is replaced
\* by the flipped value; a flip that raises ends the run.
HCorrupt(should_corrupt, corrupt_copy, bit_to_flip) ==
    /\ harness.pc = "created"
    /\ bit_to_flip \in (IF obj = "run_tmr_demonstration" THEN DemoBits
                        ELSE BitsToFlip)
    /\ LET target == IF obj = "run_tmr_demonstration"
                     THEN (IF corrupt_copy = 1 THEN value1
                           ELSE IF corrupt_copy = 2 THEN value2 ELSE value3)
                     ELSE harness.original_value
           results == IF ~should_corrupt THEN {Returned(target)}
                      ELSE IF obj = "run_tmr_demonstration"
                          THEN simulate_bit_flip(ToLong(target), bit_to_flip)
                      ELSE validate_simulate_bit_flip(ToLong(target), bit_to_flip)
       IN  \E r \in results :
               IF r.raised # "none"
                   THEN /\ harness' = [harness EXCEPT !.pc = "crashed",
                                                      !.raised = r.raised]
                        /\ UNCHANGED <<value1, value2, value3>>
               ELSE LET c == IF should_corrupt
                             THEN corrupt_one(value1, value2, value3,
                                              corrupt_copy, FromLong(r.ret))
                             ELSE [v1 |-> value1, v2 |-> value2, v3 |-> value3]
                    IN  /\ value1' = c.v1
                        /\ value2' = c.v2
                        /\ value3' = c.v3
                        /\ harness' = [harness EXCEPT
                               !.pc = IF should_corrupt THEN "corrupted"
                                      ELSE "clean"]
    /\ UNCHANGED <<obj, value_type, _value, _tmr, init_kind, last, pre, fm,
                   proc, hist>>

\* The rest of a trial: check, correct and vote, and the increment of one
\* counter.  correct() runs only when the check of a corrupted object fails.
HCheck ==
    /\ harness.pc \in {"corrupted", "clean"}
    /\ LET should_corrupt == harness.pc = "corrupted"
           n == trial_counter(obj, value1, value2, value3,
                              harness.original_value, should_corrupt)
           f == IF obj = "run_tmr_demonstration"
                THEN correct(value1, value2, value3)
                ELSE correct_tmr(value1, value2, value3)
           fixed == /\ should_corrupt
                    /\ IF obj = "run_tmr_demonstration"
                           THEN ~check_integrity(value1, value2, value3)
                       ELSE ~check_tmr_integrity(value1, value2, value3)
       IN  /\ value1' = (IF fixed THEN f.v1 ELSE value1)
           /\ value2' = (IF fixed THEN f.v2 ELSE value2)
           /\ value3' = (IF fixed THEN f.v3 ELSE value3)
           /\ harness' = [harness EXCEPT
                  !.pc = "loop",
                  !.i = @ + 1,
                  !.successful_corrections =
                      IF n = "successful_corrections" THEN @ + 1 ELSE @,
                  !.failed_corrections =
                      IF n = "failed_corrections" THEN @ + 1 ELSE @,
                  !.no_corruption =
                      IF n = "no_corruption" THEN @ + 1 ELSE @]
    /\ UNCHANGED <<obj, value_type, _value, _tmr, init_kind, last, pre, fm,
                   proc, hist>>

\* After the loop: the report divides each counter by num_tests.
HReport ==
    /\ harness.pc = "loop"
    /\ harness.i = harness.num_tests
    /\ harness' = IF harness.num_tests = 0
                  THEN [harness EXCEPT !.pc = "crashed",
                                       !.raised = "ZeroDivisionError"]
                  ELSE [harness EXCEPT !.pc = "done"]
    /\ UNCHANGED <<obj, value_type, value1, value2, value3, _value, _tmr,
                   init_kind, last, pre, fm, proc, hist>>

HarnessNext ==
    \/ \E original_value \in HarnessInts \cup HarnessFloats, core_ok \in BOOLEAN :
           HCreate(original_value, core_ok)
    \/ \E should_corrupt \in BOOLEAN, corrupt_copy \in 1..3,
          bit_to_flip \in DemoBits \cup BitsToFlip :
           HCorrupt(should_corrupt, corrupt_copy, bit_to_flip)
    \/ HCheck
    \/ HReport

SpecHarness == HarnessInit /\ [][HarnessNext]_vars

\* ----------------------------------------------------------------- claims
\* Equality, inequality and "distinct" between values are the code's own
\* comparisons (PyEq, PyNe); "unchanged" is identity of the stored objects.

IsDemo == obj = "EnhancedTMRDemo"

IsTriple == obj \in TripleClasses

\* The last operation was `name`, on an object that holds three copies.
After(name) == IsTriple /\ last.op = name

\* check_integrity() and the getter, as the object under test computes them.
Integrity(f) ==
    IF IsDemo THEN check_integrity(f.value1, f.value2, f.value3)
    ELSE check_tmr_integrity(f.value1, f.value2, f.value3)

Voted(f) ==
    IF IsDemo THEN value_get(f.value1, f.value2, f.value3)
    ELSE get_tmr_value(f.value1, f.value2, f.value3)

\* Copy i of the fields f.
Copy(f, i) == IF i = 1 THEN f.value1 ELSE IF i = 2 THEN f.value2 ELSE f.value3

\* In f, copy X holds something unequal to v and the other two equal v.
SingleFault(f, v, X) ==
    \A i \in 1..3 : IF i = X THEN PyNe(Copy(f, i), v) ELSE PyEq(Copy(f, i), v)

AllEqual(f, v) == \A i \in 1..3 : PyEq(Copy(f, i), v)

PairwiseDistinct(f) ==
    /\ PyNe(f.value1, f.value2)
    /\ PyNe(f.value1, f.value3)
    /\ PyNe(f.value2, f.value3)

\* In f, the two copies other than X agree and copy X differs from both.
Diverges(f, X) ==
    \A i \in 1..3, j \in 1..3 :
        (i # X /\ j # X /\ i # j) =>
            /\ PyEq(Copy(f, i), Copy(f, j))
            /\ PyNe(Copy(f, X), Copy(f, i))

\* The copies that differ, as stored objects, between f and g.
Changed(f, g) == {i \in 1..3 : Copy(f, i) # Copy(g, i)}

\* C1: single-fault correction.  Whenever correct() is called on three copies
\* of which exactly copy X is unequal to v and the other two equal v, it
\* returns True, and afterwards all three copies equal v, check_integrity()
\* is true and the getter returns a value equal to v.
C1_SingleFaultCorrection ==
    After("correct") =>
        \A v \in Values, X \in 1..3 :
            SingleFault(pre, v, X) =>
                /\ last.ret = PyTrue
                /\ AllEqual(DemoFields, v)
                /\ Integrity(DemoFields)
                /\ PyEq(Voted(DemoFields), v)

C1_Witness ==
    /\ After("correct")
    /\ last.ret = PyTrue
    /\ \E v \in Values : SingleFault(pre, v, 3) /\ AllEqual(DemoFields, v)

\* C2: majority masking.  With exactly copy X unequal to v and the other two
\* equal to v, the getter returns a value equal to v and check_integrity()
\* returns False, and neither repairs anything.
C2_MajorityMasking ==
    \A v \in Values, X \in 1..3 :
        /\ (After("read") /\ SingleFault(pre, v, X)) =>
               (PyEq(last.ret, v) /\ DemoFields = pre)
        /\ (After("check_integrity") /\ SingleFault(pre, v, X)) =>
               (last.ret = PyFalse /\ DemoFields = pre)

C2_Witness ==
    /\ After("read")
    /\ \E v \in Values : SingleFault(pre, v, 1) /\ PyEq(last.ret, v)

\* C3: write is authoritative.  After an accepted write(v) all three copies
\* hold v, check_integrity() is true and the getter returns a value equal
\* to v.
C3_WriteAuthoritative ==
    (After("write") /\ last.raised = "none") =>
        /\ value1 = last.arg
        /\ value2 = last.arg
        /\ value3 = last.arg
        /\ Integrity(DemoFields)
        /\ PyEq(Voted(DemoFields), last.arg)

\* C4: unrecoverable divergence.  On three pairwise unequal copies,
\* check_integrity() returns False, correct() returns False and leaves the
\* copies unchanged, and the getter returns the first copy.
C4_UnrecoverableDivergence ==
    (IsTriple /\ PairwiseDistinct(pre)) =>
        /\ last.op = "check_integrity" => last.ret = PyFalse
        /\ last.op = "correct" => (last.ret = PyFalse /\ DemoFields = pre)
        /\ last.op = "read" => last.ret = pre.value1

C4_Witness ==
    /\ After("correct")
    /\ PairwiseDistinct(pre)
    /\ last.ret = PyFalse
    /\ pre.value1 # pre.value2

\* C5: no-op on consistency.  correct() called where check_integrity() is
\* true returns False and leaves the three copies unchanged.
C5_NoOpOnConsistency ==
    (After("correct") /\ Integrity(pre)) =>
        (last.ret = PyFalse /\ DemoFields = pre)

C5_Witness ==
    /\ After("correct")
    /\ Integrity(pre)
    /\ last.ret = PyFalse
    /\ DemoFields = pre

\* C6: majority vote with the fixed tie-break.  The getter returns copy 1 if
\* copies 1 and 2 are equal, else copy 1 if copies 1 and 3 are equal, else
\* copy 2 if copies 2 and 3 are equal, else copy 1; so when two copies agree
\* the result equals both, and only with no agreement is it the first copy.
C6_MajorityVote ==
    After("read") =>
        LET a == pre.value1
            b == pre.value2
            c == pre.value3
        IN  /\ last.ret = (IF PyEq(a, b) THEN a
                           ELSE IF PyEq(a, c) THEN a
                           ELSE IF PyEq(b, c) THEN b
                           ELSE a)
            /\ \A i \in 1..3, j \in 1..3 :
                   (i # j /\ PyEq(Copy(pre, i), Copy(pre, j))) =>
                       (PyEq(last.ret, Copy(pre, i)) /\ PyEq(last.ret, Copy(pre, j)))
            /\ PairwiseDistinct(pre) => last.ret = a

C6_Witness ==
    /\ After("read")
    /\ PyNe(pre.value1, pre.value2)
    /\ PyNe(pre.value1, pre.value3)
    /\ PyEq(pre.value2, pre.value3)
    /\ last.ret = pre.value2

\* C7: correct() acts only on a single divergent copy.  It returns True
\* exactly when two copies agree and the third differs from them; it then
\* changes only the divergent copy, to the agreeing pair's value; and no call
\* changes more than one copy.
C7_CorrectFrame ==
    After("correct") =>
        /\ (last.ret = PyTrue) <=> (\E X \in 1..3 : Diverges(pre, X))
        /\ \A X \in 1..3 :
               Diverges(pre, X) =>
                   /\ Changed(pre, DemoFields) = {X}
                   /\ \E i \in (1..3) \ {X} : Copy(DemoFields, X) = Copy(pre, i)
        /\ Cardinality(Changed(pre, DemoFields)) <= 1
        /\ value_type = pre.value_type

C7_Witness ==
    /\ After("correct")
    /\ last.ret = PyTrue
    /\ Diverges(pre, 2)
    /\ Changed(pre, DemoFields) = {2}

\* C8: check_integrity() returns True exactly when the three copies are
\* equal to one another, and neither it nor the getter changes a copy or
\* value_type.
C8_CheckIntegrityPure ==
    /\ After("check_integrity") =>
           /\ (last.ret = PyTrue) <=>
                  (\A i \in 1..3, j \in 1..3 :
                       i # j => PyEq(Copy(pre, i), Copy(pre, j)))
           /\ DemoFields = pre
    /\ After("read") => DemoFields = pre

C8_Witness ==
    /\ After("check_integrity")
    /\ last.ret = PyFalse
    /\ PyEq(pre.value1, pre.value2)
    /\ DemoFields = pre

\* C9: a write whose value has another type than the one the object was
\* constructed with raises TypeError and leaves every field as it was.
C9_TypeMismatchRejected ==
    (last.op = "write" /\ TypeOf(last.arg) # init_kind) =>
        /\ last.raised = "TypeError"
        /\ IsTriple => DemoFields = pre
        /\ obj \in WrapperClasses => WrapperFields = pre

\* C10: a write is accepted exactly when the type of its value is the type
\* of the initial value given at construction.
C10_KindFixedAtConstruction ==
    last.op = "write" =>
        ((last.raised = "none") <=> (TypeOf(last.arg) = init_kind))

IsNat(v) == v.kind = "int" /\ ~v.neg

PaddedLen(v) == Len(zfill(bin_slice(v), PadWidth))

InRange(v, p) == p >= 0 /\ p < PaddedLen(v)

\* C12: integer bit-flip round trip.  For every non-negative int v, of any
\* number of binary digits, and every position p inside the index range of
\* its zero-padded binary string, flipping position p of the result of
\* flipping position p of v returns v.
C12_IntRoundTrip ==
    (/\ fm.pc \in {"flipped", "back"}
     /\ fm.impl = "advanced_tmr_demo"
     /\ IsNat(fm.value)
     /\ InRange(fm.value, fm.bit_position)) =>
        /\ fm.out.raised = "none"
        /\ fm.pc = "back" => fm.back = Returned(fm.value)

\* C13: an integer position out of range is a no-op.  For every int v and
\* every position outside the index range of v's zero-padded binary string,
\* the integer bit flip returns v unchanged and does not fail.
C13_IntOutOfRangeNoOp ==
    (/\ fm.pc \in {"flipped", "back"}
     /\ fm.value.kind = "int"
     /\ ~InRange(fm.value, fm.bit_position)) =>
        fm.out = Returned(fm.value)

\* The bitwise exclusive or of two digit strings of the same length.
XorStr(a, b) == [i \in 1..Len(a) |-> IF a[i] = b[i] THEN "0" ELSE "1"]

\* The digits of 2^k, padded to the width L.
PowStr(L, k) == zfill(Shl(<<"1">>, k), L)

\* C14: the integer flip counts positions from the most significant digit.
\* For every non-negative int v, with L the larger of 32 and the number of
\* its binary digits, and every p with 0 <= p < L, the flip returns
\* v XOR 2^(L-1-p).
C14_IntFlipMSBIndexed ==
    (/\ fm.pc \in {"flipped", "back"}
     /\ fm.impl \in {"advanced_tmr_demo", "validate_tmr"}
     /\ IsNat(fm.value)
     /\ InRange(fm.value, fm.bit_position)) =>
        LET L == IF Len(fm.value.digits) > PadWidth
                 THEN Len(fm.value.digits) ELSE PadWidth
        IN  /\ fm.out.raised = "none"
            /\ IsNat(fm.out.ret)
            /\ zfill(fm.out.ret.digits, L)
                   = XorStr(zfill(fm.value.digits, L),
                            PowStr(L, L - 1 - fm.bit_position))

C14_Witness ==
    /\ fm.pc = "flipped"
    /\ fm.impl = "advanced_tmr_demo"
    /\ fm.value = LongV(FALSE, Shl(<<"1">>, PadWidth))
    /\ fm.bit_position = 1
    /\ fm.out = Returned(LongV(FALSE, <<"1", "1">> \o Shl(<<>>, PadWidth - 1)))

\* The 32-bit pattern of a float, as the function from bit numbers (0 the
\* least significant) to bits.
Bits32(f) ==
    [k \in 0..(PatternBits - 1) |->
        IF k < MantBits THEN (f.m \div Pow2(k)) % 2
        ELSE IF k < PatternBits - 1 THEN (f.e \div Pow2(k - MantBits)) % 2
        ELSE f.s]

IsFloatCall ==
    /\ fm.pc \in {"flipped", "back"}
    /\ fm.impl \in {"advanced_tmr_demo", "validate_tmr"}
    /\ fm.value.kind = "float"

\* C15: float bit-flip round trip.  On the 32-bit pattern i of a float, the
\* flip of position p in 0..31 yields the pattern i XOR (1 << p), position 0
\* the least significant bit, and flipping position p twice returns the
\* original pattern, bit for bit.
C15_FloatRoundTrip ==
    (IsFloatCall /\ fm.bit_position \in 0..(PatternBits - 1)) =>
        /\ fm.out.raised = "none"
        /\ Bits32(fm.out.ret)
               = [Bits32(fm.value) EXCEPT ![fm.bit_position] = 1 - @]
        /\ fm.pc = "back" =>
               /\ fm.back.raised = "none"
               /\ Bits32(fm.back.ret) = Bits32(fm.value)

\* C16: a float position out of range is rejected.  For every float and
\* every position outside 0..31 the flip fails, by a validation of the range
\* that precedes the shift, and returns no value.
C16_FloatOutOfRangeRejected ==
    (IsFloatCall /\ fm.bit_position \notin 0..(PatternBits - 1)) =>
        /\ fm.out.raised # "none"
        /\ ~fm.out.shifted
        /\ fm.out.ret = NoneV

\* The fields of an int object whose copies are a, b, c.
IntCopies(f, a, b, c) ==
    /\ IsTriple
    /\ f.value1 = IntV(a)
    /\ f.value2 = IntV(b)
    /\ f.value3 = IntV(c)

\* C17: the concrete integer scenario.  On an object created with 42, the
\* integer flip of position 31 stored into the third copy leaves 43 there;
\* then check_integrity() returns False, correct() returns True, and after
\* it the getter returns 42 and the third copy holds 42.
C17_ConcreteIntScenario ==
    /\ (/\ After("bit_flip")
        /\ IntCopies(pre, InitialCounter, InitialCounter, InitialCounter)
        /\ last.copy = 3
        /\ last.arg = IntV(PadWidth - 1)) =>
           IntCopies(DemoFields, InitialCounter, InitialCounter,
                     InitialCounter + 1)
    /\ IntCopies(pre, InitialCounter, InitialCounter, InitialCounter + 1) =>
           /\ After("check_integrity") => last.ret = PyFalse
           /\ After("read") => last.ret = IntV(InitialCounter)
           /\ After("correct") =>
                  /\ last.ret = PyTrue
                  /\ IntCopies(DemoFields, InitialCounter, InitialCounter,
                               InitialCounter)
                  /\ Voted(DemoFields) = IntV(InitialCounter)

C17_Witness ==
    /\ After("correct")
    /\ IntCopies(pre, InitialCounter, InitialCounter, InitialCounter + 1)
    /\ last.ret = PyTrue
    /\ value3 = IntV(InitialCounter)

\* C19: fault injection touches exactly one copy.  One corruption step of a
\* harness stores the value the bit flip returned into the selected copy,
\* and the other two copies keep what they held; computing the flip changes
\* nothing.
C19_FaultInjectionOneReplica ==
    (After("bit_flip") /\ last.raised = "none") =>
        /\ Copy(DemoFields, last.copy) = last.ret
        /\ \A i \in 1..3 : i # last.copy => Copy(DemoFields, i) = Copy(pre, i)
        /\ \E r \in (IF IsDemo
                     THEN simulate_bit_flip(ToLong(Copy(pre, last.copy)),
                                            last.arg.n)
                     ELSE validate_simulate_bit_flip(ToLong(Copy(pre, last.copy)),
                                                     last.arg.n)) :
               r.raised = "none" /\ FromLong(r.ret) = last.ret
        /\ DemoFields.value_type = pre.value_type

C19_Witness ==
    /\ After("bit_flip")
    /\ last.copy = 2
    /\ value2 = last.ret
    /\ value2 # pre.value2
    /\ value1 = pre.value1
    /\ value3 = pre.value3

OneDiverges(f) == \E X \in 1..3 : Diverges(f, X)

\* C20: unsynchronized correctors race.  With two correct() calls running
\* on one object without mutual exclusion, a corrector can perform its
\* assignment in a state in which it is not the case that exactly one copy
\* differs from an agreeing pair (C20_Witness is such a run).  It is the
\* interleaving that does it: an assignment made outside that precondition
\* is always made after the other corrector has assigned.
C20_CorrectorsRace ==
    proc # NoProc =>
        \A t \in Threads :
            (proc[t].assigned /\ ~OneDiverges(proc[t].at)) => proc[t].after

C20_Witness ==
    /\ proc # NoProc
    /\ \E t \in Threads :
           /\ proc[t].pc = "done"
           /\ proc[t].assigned
           /\ ~OneDiverges(proc[t].at)
           /\ AllEqual(proc[t].at, proc[t].at.value1)

\* The same object, or objects the code's == takes for equal.
Same(a, b) == a = b \/ PyEq(a, b)

\* C21: sustained protection under the single-fault discipline.  In every
\* run of writes, corruptions of one copy (any copy, any value) and
\* correct() calls in which a correct() follows each corruption before the
\* next one, the getter returns the value last written in every reachable
\* state, and the state of three pairwise different copies is never reached.
C21_SustainedProtection ==
    hist # NoHist =>
        /\ Same(value_get(value1, value2, value3), hist.written)
        /\ \/ Same(value1, value2)
           \/ Same(value1, value3)
           \/ Same(value2, value3)

\* The values the copies of f hold.
Held(f) == {f.value1, f.value2, f.value3}

\* C22: a double fault is silently adopted.  When two copies hold the same
\* wrong value w and the third holds a value unequal to it (the value last
\* written, v), the getter returns w, and correct() returns True and
\* overwrites the third copy with w, after which check_integrity() is true
\* and the getter returns w.  In general a copy that correct() changes
\* receives a value that two copies held before.
C22_DoubleFaultAdopted ==
    /\ After("read") =>
           \A X \in 1..3, w \in Held(pre) :
               SingleFault(pre, w, X) => PyEq(last.ret, w)
    /\ After("correct") =>
           /\ \A X \in 1..3, w \in Held(pre) :
                  SingleFault(pre, w, X) =>
                      /\ PyEq(Voted(pre), w)
                      /\ last.ret = PyTrue
                      /\ Changed(pre, DemoFields) = {X}
                      /\ PyEq(Copy(DemoFields, X), w)
                      /\ Integrity(DemoFields)
                      /\ PyEq(Voted(DemoFields), w)
           /\ \A i \in Changed(pre, DemoFields) :
                  \E j \in 1..3, k \in 1..3 :
                      /\ j # k
                      /\ Copy(DemoFields, i) = Copy(pre, j)
                      /\ PyEq(Copy(pre, j), Copy(pre, k))

C22_Witness ==
    /\ After("correct")
    /\ init_kind = "int"
    /\ last.ret = PyTrue
    /\ pre.value1 = IntV(0)
    /\ pre.value2 = IntV(1)
    /\ pre.value3 = IntV(1)
    /\ AllEqual(DemoFields, IntV(1))

\* C23: correction never changes the voted value.  In every state of the
\* copies, the getter returns after a correct() call what it returned
\* before it (the same object), whether correct() returned True or False.
C23_CorrectKeepsVote ==
    After("correct") => Voted(DemoFields) = Voted(pre)

C23_Witness ==
    /\ After("correct")
    /\ last.ret = PyTrue
    /\ Changed(pre, DemoFields) = {2}
    /\ PyNe(pre.value2, pre.value1)
    /\ Voted(DemoFields) = Voted(pre)

\* The operations of the class of the wrapper under test, on its fields.
WGet == IF obj = "StandardTMR" THEN StandardTMR_value_get(_value, _tmr)
        ELSE EnhancedTMR_value_get(_value, _tmr)

WCheck == IF obj = "StandardTMR" THEN StandardTMR_check_integrity(_value, _tmr)
          ELSE EnhancedTMR_check_integrity(_value, _tmr)

WFix == IF obj = "StandardTMR" THEN StandardTMR_correct(_value, _tmr)
        ELSE EnhancedTMR_correct(_value, _tmr)

\* C24: a wrapper without a core gives no protection.  When _tmr is None,
\* in every reachable state, those after the stored value was overwritten
\* directly included, check_integrity() returns True, correct() returns
\* False and changes nothing, and the getter returns the value stored.
C24_NoCoreNoProtection ==
    (obj \in WrapperClasses /\ _tmr = NoneV) =>
        /\ WCheck
        /\ WFix = [ret |-> FALSE, tmr |-> NoneV]
        /\ WGet = _value
        /\ last.op = "check_integrity" =>
               (last.ret = PyTrue /\ WrapperFields = pre)
        /\ last.op = "correct" => (last.ret = PyFalse /\ WrapperFields = pre)
        /\ last.op = "read" => (last.ret = _value /\ WrapperFields = pre)

C24_Witness ==
    /\ obj = "StandardTMR"
    /\ _tmr = NoneV
    /\ last.op = "corrupt"
    /\ pre.value = IntV(InitialCounter)
    /\ _value = IntV(1)
    /\ WCheck
    /\ WGet = IntV(1)

\* C25: every single-bit flip is detected.  For every int or float value
\* and every position in 0..31, the result of the fault model is unequal,
\* for ==, to the value; so after a harness has stored it into one copy of
\* a consistent triple, check_integrity() returns False.
C25_EveryFlipDetected ==
    (After("bit_flip") /\ last.raised = "none") =>
        /\ PyNe(last.ret, Copy(pre, last.copy))
        /\ ~Integrity(DemoFields)

\* C26: the harness never records a failure.  For every number of trials
\* and every outcome of its random choices, failed_corrections stays 0, each
\* trial increments exactly one of the three counters, and on termination
\* successful_corrections + no_corruption equals num_tests.
C26_HarnessNeverFails ==
    harness # NoHarness =>
        /\ harness.failed_corrections = 0
        /\ harness.pc \in {"loop", "done", "crashed"} =>
               harness.successful_corrections + harness.failed_corrections
                   + harness.no_corruption
               = harness.i + (IF harness.pc = "crashed" /\ harness.i < harness.num_tests
                              THEN 1 ELSE 0)
        /\ harness.pc \in {"done", "crashed"} =>
               harness.successful_corrections + harness.no_corruption
                   = harness.num_tests

\* The write and the correct() that ran beside it have both completed, the
\* write without raising.
WriteRaceOver ==
    /\ obj = "EnhancedTMRDemo, writer and corrector"
    /\ proc[Corrector].pc = "done"
    /\ proc[Writer].pc = "done"
    /\ proc[Writer].raised = "none"

CorrectorsDone ==
    /\ obj = "EnhancedTMRDemo, two threads"
    /\ \A t \in Threads : proc[t].pc = "done"

\* C28: two concurrent correctors converge.  For every initial state of the
\* copies and every interleaving of the comparisons and assignments of two
\* correct() calls, the copies at the end are the copies a single correct()
\* call leaves from that initial state.
C28_CorrectorsConverge ==
    CorrectorsDone =>
        LET r == correct(pre.value1, pre.value2, pre.value3)
        IN  /\ value1 = r.v1
            /\ value2 = r.v2
            /\ value3 = r.v3

C28_Witness ==
    /\ CorrectorsDone
    /\ \A t \in Threads : proc[t].assigned
    /\ \E t \in Threads : proc[t].after
    /\ Changed(pre, DemoFields) # {}

\* What a caller sees of a call: the value returned, or that it failed.
Outcome(r) ==
    IF r.raised = "none" THEN [fails |-> FALSE, ret |-> r.ret]
    ELSE [fails |-> TRUE, ret |-> NoneV]

\* The outcomes of an implementation on the call made.
OutcomesOf(impl) == {Outcome(r) : r \in Call(impl, fm.value, fm.bit_position)}

\* C29: the three integer bit flips agree.  For every non-negative int and
\* every position, in range or out of range, simulate_bit_flip of
\* advanced_tmr_demo.py, simulate_bit_flip of validate_tmr.py and
\* simulate_radiation_effect of examples/tmr_example.py have the same
\* outcome: the same returned value, or all fail.
C29_IntFlipsAgree ==
    (/\ fm.pc \in {"flipped", "back"}
     /\ IsNat(fm.value)) =>
        \A impl \in FlipImpls : OutcomesOf(impl) = {Outcome(fm.out)}

\* C30: the integer bit flip is defined on every signed int.  For every int
\* v, negative ones included, and every position p with 0 <= p <= 31, the
\* flip returns an int and does not fail.
C30_IntFlipTotal ==
    (/\ fm.pc \in {"flipped", "back"}
     /\ fm.value.kind = "int"
     /\ fm.bit_position \in 0..(PatternBits - 1)) =>
        /\ fm.out.raised = "none"
        /\ fm.out.ret.kind = "int"
====
